---- MODULE Spec2Model ----
(***************************************************************************)
(* Tic-tac-toe engine (tic_tac_toe/core.py) and its players.               *)
(*                                                                         *)
(* A board is a sequence of rows, each a sequence of cells 0/1/2, as the   *)
(* numpy array of the source read row by row.  Python's 0-based indices    *)
(* are kept in moves; Cell and SetCell translate them.  A Python bool or   *)
(* exception leaving a method is the string "True", "False" or the         *)
(* exception's name.  State strings are sequences of one-character         *)
(* strings.                                                                *)
(***************************************************************************)
EXTENDS Integers, Sequences, FiniteSets, TLC

VARIABLES
    board, current_player, winner, finished,  \* the TicTacToe object
    players,                                  \* its players: Dummy, seat 1, seat 2
    pc,                                       \* where play() stands
    episodes,                                 \* play() calls that returned
    history,                                  \* the rewards each seat was given
    input,                                    \* the datum a codec is given
    ret                                       \* the last call and its result

game_vars == <<board, current_player, winner, finished>>
play_vars == <<players, pc, episodes, history>>
vars == <<board, current_player, winner, finished, players, pc, episodes,
          history, input, ret>>

\* ---------------------------------------------------------------- bounds
\* Indices tried by callers run over -(MaxIdx+1) .. MaxIdx.
MaxIdx == 3

\* play() is called at most MaxEpisodes times, on boards with at most
\* MaxEmpty empty cells.
MaxEpisodes == 3
MaxEmpty == 3
\* Where play() is followed to its return under fairness, it is called at
\* most MaxGames times.
MaxGames == 2
\* Strings handed to str_to_state have at most MaxStrLen characters.
MaxStrLen == 5

\* ------------------------------------------------------------- constants
\* The side of the board, np.zeros((3, 3)).
N == 3
\* Python's None, for winner and for an omitted player argument.
None == -1

Players == {1, 2}
Idx == 0 .. (N - 1)
IdxTried == (0 - (MaxIdx + 1)) .. MaxIdx
Moves == IdxTried \X IdxTried

\* ------------------------------------------------------- numpy indexing
\* An index numpy accepts on an axis of length N: -N .. N-1.
InBounds(i) == (0 - N) <= i /\ i < N
\* The position a (possibly negative) accepted index addresses.
Wrap(i) == IF i < 0 THEN i + N ELSE i
MoveInBounds(move) == InBounds(move[1]) /\ InBounds(move[2])
Cell(b, move) == b[Wrap(move[1]) + 1][Wrap(move[2]) + 1]
SetCell(b, move, v) ==
    [b EXCEPT ![Wrap(move[1]) + 1] = [@ EXCEPT ![Wrap(move[2]) + 1] = v]]

Addressed(move) ==
    IF MoveInBounds(move) THEN <<Wrap(move[1]), Wrap(move[2])>> ELSE <<>>

zeros == [r \in 1 .. N |-> [c \in 1 .. N |-> 0]]
\* The cells in row-major order, as np.where enumerates them.
RowMajor == [k \in 1 .. (N * N) |-> <<(k - 1) \div N, (k - 1) % N>>]
\* np.sum(board == v), for a board of any shape.
Count(b, v) ==
    Cardinality(UNION {{<<i, j>> : j \in {j \in 1 .. Len(b[i]) : b[i][j] = v}} :
                          i \in 1 .. Len(b)})

\* ------------------------------------------------------------ TicTacToe
get_valid_moves(b) == SelectSeq(RowMajor, LAMBDA m : Cell(b, m) = 0)

is_valid_move_overwrite(b, move) ==
    IF ~MoveInBounds(move) THEN "IndexError" ELSE "True"

is_valid_move(b, move) ==
    IF ~MoveInBounds(move) THEN "IndexError"
    ELSE IF Cell(b, move) = 0 THEN "True" ELSE "False"

Row(b, i) == {b[i + 1][c] : c \in 1 .. N}
Col(b, i) == {b[r][i + 1] : r \in 1 .. N}
diag(b) == {b[k][k] : k \in 1 .. N}
diag_fliplr(b) == {b[k][N + 1 - k] : k \in 1 .. N}

check_winner_no_fliplr(b, cp, player) ==
    LET p == IF player = None \/ player = 0 THEN cp ELSE player
    IN  IF p \notin Players THEN "AssertionError"
        ELSE IF \E i \in Idx : Row(b, i) = {p} \/ Col(b, i) = {p} THEN "True"
        ELSE IF diag(b) = {p} THEN "True"
        ELSE "False"

check_winner(b, cp, player) ==
    LET p == IF player = None \/ player = 0 THEN cp ELSE player
    IN  IF p \notin Players THEN "AssertionError"
        ELSE IF \E i \in Idx : Row(b, i) = {p} \/ Col(b, i) = {p} THEN "True"
        ELSE IF diag(b) = {p} \/ diag_fliplr(b) = {p} THEN "True"
        ELSE "False"

Game(b, cp, w, f) ==
    [board |-> b, current_player |-> cp, winner |-> w, finished |-> f]

make_move_ignoring_finished(g, move) ==
    LET valid == is_valid_move(g.board, move)
        b1 == SetCell(g.board, move, g.current_player)
        won == check_winner(b1, g.current_player, None) = "True"
        full == Len(get_valid_moves(b1)) = 0
    IN  IF valid = "IndexError" THEN [game |-> g, result |-> "IndexError"]
        ELSE IF valid = "False" THEN [game |-> g, result |-> "False"]
        ELSE [game |-> Game(b1, 3 - g.current_player,
                            IF won THEN g.current_player ELSE g.winner,
                            IF won \/ full THEN TRUE ELSE g.finished),
              result |-> "True"]

make_move_draw_first(g, move) ==
    LET valid == is_valid_move(g.board, move)
        b1 == SetCell(g.board, move, g.current_player)
        won == check_winner(b1, g.current_player, None) = "True"
        full == Len(get_valid_moves(b1)) = 0
    IN  IF valid = "IndexError" THEN [game |-> g, result |-> "IndexError"]
        ELSE IF valid = "False" \/ g.finished THEN [game |-> g, result |-> "False"]
        ELSE [game |-> Game(b1, 3 - g.current_player,
                            IF won /\ ~full THEN g.current_player ELSE g.winner,
                            IF won \/ full THEN TRUE ELSE g.finished),
              result |-> "True"]

make_move_win_only(g, move) ==
    LET valid == is_valid_move(g.board, move)
        b1 == SetCell(g.board, move, g.current_player)
        won == check_winner(b1, g.current_player, None) = "True"
    IN  IF valid = "IndexError" THEN [game |-> g, result |-> "IndexError"]
        ELSE IF valid = "False" \/ g.finished THEN [game |-> g, result |-> "False"]
        ELSE [game |-> Game(b1, 3 - g.current_player,
                            IF won THEN g.current_player ELSE g.winner,
                            IF won THEN TRUE ELSE g.finished),
              result |-> "True"]

make_move_no_switch_at_end(g, move) ==
    LET valid == is_valid_move(g.board, move)
        b1 == SetCell(g.board, move, g.current_player)
        won == check_winner(b1, g.current_player, None) = "True"
        full == Len(get_valid_moves(b1)) = 0
    IN  IF valid = "IndexError" THEN [game |-> g, result |-> "IndexError"]
        ELSE IF valid = "False" \/ g.finished THEN [game |-> g, result |-> "False"]
        ELSE [game |-> Game(b1,
                            IF won \/ full THEN g.current_player
                            ELSE 3 - g.current_player,
                            IF won THEN g.current_player ELSE g.winner,
                            IF won \/ full THEN TRUE ELSE g.finished),
              result |-> "True"]

\* is_valid_move is evaluated first and may raise; then `finished`.  On an
\* accepted move: the mark, then winner/finished, then the switch.
make_move(g, move) ==
    LET valid == is_valid_move(g.board, move)
        b1 == SetCell(g.board, move, g.current_player)
        won == check_winner(b1, g.current_player, None) = "True"
        full == Len(get_valid_moves(b1)) = 0
    IN  IF valid = "IndexError" THEN [game |-> g, result |-> "IndexError"]
        ELSE IF valid = "False" \/ g.finished THEN [game |-> g, result |-> "False"]
        ELSE [game |-> Game(b1, 3 - g.current_player,
                            IF won THEN g.current_player ELSE g.winner,
                            IF won \/ full THEN TRUE ELSE g.finished),
              result |-> "True"]

\* ----------------------------------------------------- state <-> string
symbols == <<"-", "X", "O">>

HasSymbol(ch) == \E i \in 1 .. Len(symbols) : symbols[i] = ch

symbols_to_int_from_one(ch) == CHOOSE i \in 1 .. Len(symbols) : symbols[i] = ch

\* {symbol: idx for idx, symbol in enumerate(symbols)}
symbols_to_int(ch) == (CHOOSE i \in 1 .. Len(symbols) : symbols[i] = ch) - 1

RECURSIVE join(_, _)
\* sep.join(rows)
join(sep, rows) ==
    IF rows = <<>> THEN <<>>
    ELSE IF Len(rows) = 1 THEN rows[1]
    ELSE rows[1] \o sep \o join(sep, Tail(rows))

RECURSIVE split(_, _)
\* s.split(ch): the pieces between the occurrences of ch, the empty ones too.
split(s, ch) ==
    IF \A k \in 1 .. Len(s) : s[k] # ch THEN <<s>>
    ELSE LET k == CHOOSE k \in 1 .. Len(s) :
                      s[k] = ch /\ \A j \in 1 .. (k - 1) : s[j] # ch
         IN  <<SubSeq(s, 1, k - 1)>> \o split(SubSeq(s, k + 1, Len(s)), ch)

state_to_str(b) ==
    join(<<"\n">>,
         [i \in 1 .. Len(b) |-> [j \in 1 .. Len(b[i]) |-> symbols[b[i][j] + 1]]])

\* The player str_to_state and int_to_state return beside the board.
player_by_count(b) == IF Count(b, 1) <= Count(b, 2) THEN 1 ELSE 2

\* The dictionary lookup raises KeyError on a character that is no symbol;
\* np.array raises ValueError on rows of different lengths; any other list
\* of rows becomes an array, whatever its shape.
str_to_state(s) ==
    LET rows == split(s, "\n")
        b == [i \in 1 .. Len(rows) |->
                 [j \in 1 .. Len(rows[i]) |-> symbols_to_int(rows[i][j])]]
    IN  IF \E i \in 1 .. Len(rows) : \E j \in 1 .. Len(rows[i]) :
               ~HasSymbol(rows[i][j])
        THEN [status |-> "KeyError"]
        ELSE IF \E i \in 1 .. Len(rows) : Len(rows[i]) # Len(rows[1])
        THEN [status |-> "ValueError"]
        ELSE [status |-> "ok", board |-> b, current_player |-> player_by_count(b)]

\* ---------------------------------------------------- state <-> integer
digits == <<"0", "1", "2">>
digit_value(ch) == (CHOOSE i \in 1 .. Len(digits) : digits[i] = ch) - 1

RECURSIVE flatten(_)
flatten(b) == IF b = <<>> THEN <<>> ELSE b[1] \o flatten(Tail(b))

RECURSIVE int_base3(_)
\* int(s, 3) for a string of the digits 0, 1, 2.
int_base3(s) ==
    IF Len(s) = 0 THEN 0
    ELSE 3 * int_base3(SubSeq(s, 1, Len(s) - 1)) + digit_value(s[Len(s)])

RECURSIVE base_repr3(_)
\* np.base_repr(n, base=3) for n >= 0: "0" for 0, else the digits of n.
base_repr3(n) ==
    IF n = 0 THEN <<"0">>
    ELSE IF n < 3 THEN <<digits[n + 1]>>
    ELSE base_repr3(n \div 3) \o <<digits[(n % 3) + 1]>>

\* s.zfill(width)
zfill(s, width) ==
    IF Len(s) >= width THEN s ELSE [k \in 1 .. (width - Len(s)) |-> "0"] \o s

state_to_int_little_endian(b) ==
    int_base3([k \in 1 .. Len(flatten(b)) |->
                  digits[flatten(b)[Len(flatten(b)) + 1 - k] + 1]])

state_to_int(b) ==
    int_base3([k \in 1 .. Len(flatten(b)) |-> digits[flatten(b)[k] + 1]])

\* reshape(3, 3) raises ValueError unless there are exactly nine digits.
int_to_state(n) ==
    LET s == zfill(base_repr3(n), N * N)
        b == [r \in 1 .. N |-> [c \in 1 .. N |-> digit_value(s[N * (r - 1) + c])]]
    IN  IF Len(s) # N * N THEN [status |-> "ValueError"]
        ELSE [status |-> "ok", board |-> b, current_player |-> player_by_count(b)]

\* -------------------------------------------------------------- players
\* A dict is a function on its keys; {} is the function on no key.
EmptyDict == <<>>
Put(d, k, v) == (k :> v) @@ d
Get(d, k, default) == IF k \in DOMAIN d THEN d[k] ELSE default
Range(f) == {f[x] : x \in DOMAIN f}

\* Floats are kept as exact fractions <<numerator, denominator>>.
GCD[a \in Nat, b \in Nat] == IF b = 0 THEN a ELSE GCD[b, a % b]
Abs(a) == IF a < 0 THEN 0 - a ELSE a
Reduced[n \in Int, d \in Nat, g \in Nat] == <<n \div g, d \div g>>
Frac(n, d) == IF n = 0 THEN <<0, 1>> ELSE Reduced[n, d, GCD[Abs(n), d]]
FracAdd(x, y) == Frac(x[1] * y[2] + y[1] * x[2], x[2] * y[2])
FracSub(x, y) == Frac(x[1] * y[2] - y[1] * x[2], x[2] * y[2])
FracDiv(x, k) == Frac(x[1], x[2] * k)
FracMul(x, k) == Frac(x[1] * k, x[2])
Zero == Frac(0, 1)
Half == Frac(1, 2)
One == Frac(1, 1)

\* The arguments of a constructor that matter: the class, MENACE's
\* infinite_exploration, and whether HeuristicPlayer's epsilon is set (to a
\* probability strictly between 0 and 1).
Config(kind, infinite_exploration, epsilon) ==
    [kind |-> kind, infinite_exploration |-> infinite_exploration,
     epsilon |-> epsilon]
DefaultPlayer == Config("Player", FALSE, FALSE)
Learners ==
    {DefaultPlayer, Config("MENACE", FALSE, FALSE), Config("MENACE", TRUE, FALSE)}
Agents ==
    {DefaultPlayer, Config("HeuristicPlayer", FALSE, FALSE),
     Config("HeuristicPlayer", FALSE, TRUE)}

\* Player.__init__ / HeuristicPlayer.__init__ / MENACE.__init__.  matchboxes
\* holds the boxes end_game has written; every other box is as
\* _seed_matchboxes made it.
NewPlayer(cfg) ==
    [kind |-> cfg.kind,
     infinite_exploration |-> cfg.infinite_exploration,
     epsilon |-> cfg.epsilon,
     state_buffer |-> <<>>,
     state_counts |-> EmptyDict,
     state_values |-> EmptyDict,
     action_buffer |-> EmptyDict,
     matchboxes |-> EmptyDict]

\* _seed_matchboxes: a box for every board with beads = empty cells // 2
\* not zero, holding that many beads for each empty cell.
beads_rounded_up(b) == (Count(b, 0) + 1) \div 2

beads(b) == Count(b, 0) \div 2
seed_matchbox(b) == [m \in Range(get_valid_moves(b)) |-> beads(b)]
seeded_two_beads(state) ==
    LET r == str_to_state(state)
    IN  /\ r.status = "ok"
        /\ Len(r.board) = N /\ \A i \in 1 .. N : Len(r.board[i]) = N
        /\ beads(r.board) > 1

seeded(state) ==
    LET r == str_to_state(state)
    IN  /\ r.status = "ok"
        /\ Len(r.board) = N /\ \A i \in 1 .. N : Len(r.board[i]) = N
        /\ beads(r.board) # 0
has_matchbox(p, state) == state \in DOMAIN p.matchboxes \/ seeded(state)
\* self.matchboxes[state], for a state that has a box.
matchbox(p, state) ==
    IF state \in DOMAIN p.matchboxes THEN p.matchboxes[state]
    ELSE seed_matchbox(str_to_state(state).board)
\* Counter.total()
total(box) ==
    LET RECURSIVE sum(_)
        sum(ks) == IF ks = {} THEN 0
                   ELSE LET k == CHOOSE k \in ks : TRUE
                        IN  box[k] + sum(ks \ {k})
    IN  sum(DOMAIN box)

Player_reset(p) == [p EXCEPT !.state_buffer = <<>>]

MENACE_reset_keeps_action_buffer(p) == Player_reset(p)

MENACE_reset(p) == [Player_reset(p) EXCEPT !.action_buffer = EmptyDict]

player_reset(p) == IF p.kind = "MENACE" THEN MENACE_reset(p) ELSE Player_reset(p)

\* What Player.action and MENACE.action may do: the player afterwards and
\* either the move returned or the exception raised.
Returned(p, move) == [player |-> p, raised |-> "", move |-> move]
Raised(p, exc) == [player |-> p, raised |-> exc, move |-> <<>>]

Player_action_no_append(p, b) ==
    IF Len(get_valid_moves(b)) = 0 THEN {Raised(p, "ValueError")}
    ELSE {Returned(p, m) : m \in Range(get_valid_moves(b))}

Player_action_any_cell(p, b) ==
    {Returned([p EXCEPT !.state_buffer = Append(@, state_to_str(b))], m) :
        m \in Idx \X Idx}

\* rng.choice raises ValueError on an empty list of moves.
Player_action(p, b) ==
    LET p1 == [p EXCEPT !.state_buffer = Append(@, state_to_str(b))]
        valid_moves == get_valid_moves(b)
    IN  IF Len(valid_moves) = 0 THEN {Raised(p1, "ValueError")}
        ELSE {Returned(p1, m) : m \in Range(valid_moves)}

MENACE_action_uniform(p, b) ==
    LET state == state_to_str(b)
        p1 == [p EXCEPT !.state_buffer = Append(@, state)]
        valid_moves == get_valid_moves(b)
        box == matchbox(p, state)
    IN  IF Len(valid_moves) = 1 THEN {Returned(p1, valid_moves[1])}
        ELSE IF ~has_matchbox(p, state) THEN {Raised(p1, "KeyError")}
        ELSE IF total(box) < 1 THEN {Raised(p1, "PlayerResignedError")}
        ELSE {Returned([p1 EXCEPT !.action_buffer = Put(@, state, m)], m) :
                 m \in Range(valid_moves)}

MENACE_action_records_forced(p, b) ==
    LET state == state_to_str(b)
        p1 == [p EXCEPT !.state_buffer = Append(@, state)]
        valid_moves == get_valid_moves(b)
        box == matchbox(p, state)
    IN  IF Len(valid_moves) = 1
        THEN {Returned([p1 EXCEPT !.action_buffer = Put(@, state, valid_moves[1])],
                       valid_moves[1])}
        ELSE IF ~has_matchbox(p, state) THEN {Raised(p1, "KeyError")}
        ELSE IF total(box) < 1 THEN {Raised(p1, "PlayerResignedError")}
        ELSE {Returned([p1 EXCEPT !.action_buffer = Put(@, state, m)], m) :
                 m \in {m \in Range(valid_moves) : box[m] > 0}}

MENACE_action_plays_on(p, b) ==
    LET state == state_to_str(b)
        p1 == [p EXCEPT !.state_buffer = Append(@, state)]
        valid_moves == get_valid_moves(b)
        box == matchbox(p, state)
    IN  IF Len(valid_moves) = 1 THEN {Returned(p1, valid_moves[1])}
        ELSE IF ~has_matchbox(p, state) THEN {Raised(p1, "KeyError")}
        ELSE {Returned([p1 EXCEPT !.action_buffer = Put(@, state, m)], m) :
                 m \in {m \in Range(valid_moves) : total(box) < 1 \/ box[m] > 0}}

\* rng.choice(valid_moves, p=probs) returns a move of positive probability.
MENACE_action(p, b) ==
    LET state == state_to_str(b)
        p1 == [p EXCEPT !.state_buffer = Append(@, state)]
        valid_moves == get_valid_moves(b)
        box == matchbox(p, state)
    IN  IF Len(valid_moves) = 1 THEN {Returned(p1, valid_moves[1])}
        ELSE IF ~has_matchbox(p, state) THEN {Raised(p1, "KeyError")}
        ELSE IF total(box) < 1 THEN {Raised(p1, "PlayerResignedError")}
        ELSE {Returned([p1 EXCEPT !.action_buffer = Put(@, state, m)], m) :
                 m \in {m \in Range(valid_moves) : box[m] > 0}}

\* The valid moves after rng.shuffle: every move can come first, which is
\* all the loops below depend on, so the rotations stand for the orders.
shuffled(moves) ==
    IF moves = <<>> THEN {<<>>}
    ELSE {[i \in 1 .. Len(moves) |-> moves[((i + k - 1) % Len(moves)) + 1]] :
             k \in 0 .. Len(moves) - 1}

RECURSIVE try_moves_no_revert(_, _, _, _)
try_moves_no_revert(b, cp, moves, player) ==
    IF moves = <<>> THEN [board |-> b, move |-> <<>>]
    ELSE LET move == Head(moves)
             tried == SetCell(b, move, player)
         IN  IF check_winner(tried, cp, player) = "True"
             THEN [board |-> SetCell(tried, move, 0), move |-> move]
             ELSE try_moves_no_revert(tried, cp, Tail(moves), player)

RECURSIVE try_moves(_, _, _, _)
\* for move in valid_moves: board[move] = player; if check_winner(player):
\* board[move] = 0, return move; board[move] = 0.  The board the loop leaves
\* and the move it returned (<<>> when it ran to its end).
try_moves(b, cp, moves, player) ==
    IF moves = <<>> THEN [board |-> b, move |-> <<>>]
    ELSE LET move == Head(moves)
             tried == SetCell(b, move, player)
         IN  IF check_winner(tried, cp, player) = "True"
             THEN [board |-> SetCell(tried, move, 0), move |-> move]
             ELSE try_moves(SetCell(tried, move, 0), cp, Tail(moves), player)

center_move == <<1, 1>>
corner_moves == <<<<0, 0>>, <<0, 2>>, <<2, 0>>, <<2, 2>>>>

\* What action() did: the player and the board afterwards, and the move
\* returned or the exception raised.
Outcome(p, b, raised, move) ==
    [player |-> p, board |-> b, raised |-> raised, move |-> move]

\* _random_action on board b.
HeuristicPlayer_random_action(p, b) ==
    IF Len(get_valid_moves(b)) = 0 THEN {Outcome(p, b, "ValueError", <<>>)}
    ELSE {Outcome(p, b, "", m) : m \in Range(get_valid_moves(b))}

\* for move in corner_moves: if board[move] == 0: return move, for every
\* order of the corners; {} when no corner is empty.
first_empty_corner(b) ==
    IF \A k \in 1 .. Len(corner_moves) : Cell(b, corner_moves[k]) # 0 THEN {}
    ELSE {LET first == CHOOSE k \in 1 .. Len(cm) :
                          /\ Cell(b, cm[k]) = 0
                          /\ \A j \in 1 .. k - 1 : Cell(b, cm[j]) # 0
          IN  cm[first] : cm \in shuffled(corner_moves)}

HeuristicPlayer_rest_corner_first(p, b) ==
    IF first_empty_corner(b) # {}
    THEN {Outcome(p, b, "", move) : move \in first_empty_corner(b)}
    ELSE IF Cell(b, center_move) = 0 THEN {Outcome(p, b, "", center_move)}
    ELSE HeuristicPlayer_random_action(p, b)

HeuristicPlayer_rest_centre_unchecked(p, b) ==
    {Outcome(p, b, "", center_move)}

\* The lower rungs of the ladder on board b: centre, corner, random.
HeuristicPlayer_rest(p, b) ==
    IF Cell(b, center_move) = 0 THEN {Outcome(p, b, "", center_move)}
    ELSE IF first_empty_corner(b) # {}
    THEN {Outcome(p, b, "", move) : move \in first_empty_corner(b)}
    ELSE HeuristicPlayer_random_action(p, b)

\* The ladder after the exploration test: win, block, then the lower rungs.
HeuristicPlayer_ladder(p, g) ==
    LET cp == g.current_player
        opponent == 3 - cp
        wins == {try_moves(g.board, cp, vm, cp) :
                    vm \in shuffled(get_valid_moves(g.board))}
        blocks(b) == {try_moves(b, cp, vm, opponent) :
                         vm \in shuffled(get_valid_moves(b))}
    IN  UNION {IF w.move # <<>> THEN {Outcome(p, w.board, "", w.move)}
               ELSE UNION {IF k.move # <<>> THEN {Outcome(p, k.board, "", k.move)}
                           ELSE HeuristicPlayer_rest(p, k.board) :
                           k \in blocks(w.board)} :
               w \in wins}

\* HeuristicPlayer.action on the game g.
HeuristicPlayer_action(p, g) ==
    LET p1 == [p EXCEPT !.state_buffer = Append(@, state_to_str(g.board))]
    IN  (IF p.epsilon THEN HeuristicPlayer_random_action(p1, g.board) ELSE {})
            \cup HeuristicPlayer_ladder(p1, g)

\* self.players[self.current_player].action()
player_action(p, g) ==
    IF p.kind = "HeuristicPlayer" THEN HeuristicPlayer_action(p, g)
    ELSE {Outcome(a.player, g.board, a.raised, a.move) :
             a \in IF p.kind = "MENACE" THEN MENACE_action(p, g.board)
                   ELSE Player_action(p, g.board)}

running_mean_undivided(value, reward, count) ==
    FracAdd(value, FracSub(reward, value))

\* self.state_values[state] += (reward - self.state_values[state])
\*                                   / self.state_counts[state]
running_mean(value, reward, count) ==
    FracAdd(value, FracDiv(FracSub(reward, value), count))

RECURSIVE Player_end_game_from(_, _, _)
\* The loop of Player.end_game from the k-th state of the buffer on.
Player_end_game_from(p, reward, k) ==
    IF k > Len(p.state_buffer) THEN p
    ELSE LET state == p.state_buffer[k]
             count == Get(p.state_counts, state, 0) + 1
             value == Get(p.state_values, state, Zero)
             counted ==
                 [p EXCEPT !.state_counts = Put(@, state, count),
                           !.state_values =
                               Put(@, state, running_mean(value, reward, count))]
         IN  \* q is the value of counted, computed once for the rest of the loop
             CHOOSE r \in {Player_end_game_from(q, reward, k + 1) : q \in {counted}} :
                 TRUE

Player_end_game(p, reward) == Player_end_game_from(p, reward, 1)

add_beads_always_one(reward) == 1

\* add_beads = 3 if reward == 1 else -1 if reward == 0 else 1
add_beads(reward) ==
    IF reward = One THEN 3 ELSE IF reward = Zero THEN 0 - 1 ELSE 1

MENACE_end_game_takes_two_unfloored(p, reward) ==
    LET p1 == Player_end_game(p, reward)
        adjusted(state) ==
            LET box == matchbox(p1, state)
                action == p1.action_buffer[state]
            IN  [box EXCEPT ![action] =
                    @ + IF reward = Zero THEN 0 - 2 ELSE add_beads(reward)]
    IN  [p1 EXCEPT !.matchboxes =
            [state \in DOMAIN p1.matchboxes \cup DOMAIN p1.action_buffer |->
                IF state \in DOMAIN p1.action_buffer THEN adjusted(state)
                ELSE p1.matchboxes[state]]]

\* matchbox | {...} builds a new Counter and drops it: infinite_exploration
\* changes nothing.
MENACE_end_game(p, reward) ==
    LET p1 == Player_end_game(p, reward)
        adjusted(state) ==
            LET box == matchbox(p1, state)
                action == p1.action_buffer[state]
                n == box[action] + add_beads(reward)
            IN  [box EXCEPT ![action] = IF n < 0 THEN 0 ELSE n]
    IN  [p1 EXCEPT !.matchboxes =
            [state \in DOMAIN p1.matchboxes \cup DOMAIN p1.action_buffer |->
                IF state \in DOMAIN p1.action_buffer THEN adjusted(state)
                ELSE p1.matchboxes[state]]]

player_end_game(p, reward) ==
    IF p.kind = "MENACE" THEN MENACE_end_game(p, reward)
    ELSE Player_end_game(p, reward)

reward_of_winner_to_all(i, w) == IF w = None THEN Half ELSE One

\* 1 if i == self.winner else 0.5 if self.winner is None else 0
reward_of(i, w) == IF i = w THEN One ELSE IF w = None THEN Half ELSE Zero

\* TicTacToe.reset: every player is reset, then the game's fields.
reset(ps) ==
    [players |-> [i \in DOMAIN ps |-> player_reset(ps[i])],
     game |-> Game(zeros, 1, None, FALSE)]

\* -------------------------------------------------------------- actions
TheGame == Game(board, current_player, winner, finished)

Return(op, a, v) == [op |-> op, arg |-> a, val |-> v]

\* TicTacToe(players): players[0] is the Dummy, then the two seats.
Seats == 0 .. 2
Constructed(cfgs) ==
    /\ players = [i \in Seats |-> NewPlayer(IF i = 0 THEN DefaultPlayer ELSE cfgs[i])]
    /\ board = zeros
    /\ current_player = 1
    /\ winner = None
    /\ finished = FALSE
    /\ pc = "idle"
    /\ episodes = 0
    /\ history = [i \in Seats |-> EmptyDict]
    /\ ret = Return("init", <<>>, "")

\* TicTacToe(): two default players.
Init ==
    /\ Constructed(<<DefaultPlayer, DefaultPlayer>>)
    /\ input = <<>>

\* A call of make_move.  ret keeps the cell the move addressed (after numpy
\* resolved its indices; <<>> when it raised) and what the call returned.
MakeMove(move) ==
    LET r == make_move(TheGame, move)
    IN  /\ board' = r.game.board
        /\ current_player' = r.game.current_player
        /\ winner' = r.game.winner
        /\ finished' = r.game.finished
        /\ ret' = Return("make_move", Addressed(move), r.result)
        /\ UNCHANGED <<play_vars, input>>

\* A call of reset(): before play(), after it returned, after it raised.
Reset ==
    LET r == reset(players)
    IN  /\ pc \in {"idle", "over", "raised"}
        /\ players' = r.players
        /\ board' = r.game.board
        /\ current_player' = r.game.current_player
        /\ winner' = r.game.winner
        /\ finished' = r.game.finished
        /\ pc' = "idle"
        /\ ret' = Return("reset", <<>>, "")
        /\ UNCHANGED <<episodes, history, input>>

\* The engine driven by make_move on the cells of the grid, and reset.
Next ==
    \/ \E move \in Idx \X Idx : MakeMove(move)
    \/ Reset

Spec == Init /\ [][Next]_vars

\* The engine driven by make_move with any index a caller may try.
NextIdx ==
    \/ \E move \in Moves : MakeMove(move)
    \/ Reset

SpecIdx == Init /\ [][NextIdx]_vars

\* ------------------------------------------------- the integer encoding
\* Every integer below 3**9, the range _seed_matchboxes enumerates.
NumStates == 3 ^ (N * N)

\* A constructed game, an integer to decode, and the player to move as a
\* caller set it (tests/test_core.py sets current_player before check_winner).
InitCodec ==
    /\ players = [i \in Seats |-> NewPlayer(DefaultPlayer)]
    /\ board = zeros
    /\ current_player \in Players
    /\ winner = None
    /\ finished = FALSE
    /\ pc = "idle"
    /\ episodes = 0
    /\ history = [i \in Seats |-> EmptyDict]
    /\ input \in 0 .. (NumStates - 1)
    /\ ret = Return("init", <<>>, "")

\* state, _ = game.int_to_state(i); game.board = state
LoadInt ==
    LET r == int_to_state(input)
    IN  /\ ret.op = "init"
        /\ board' = IF r.status = "ok" THEN r.board ELSE board
        /\ ret' = Return("int_to_state", input, r.status)
        /\ UNCHANGED <<current_player, winner, finished, play_vars, input>>

StateToInt ==
    /\ ret.op # "init"
    /\ ret' = Return("state_to_int", <<>>, state_to_int(board))
    /\ UNCHANGED <<game_vars, play_vars, input>>

CheckWinner(player) ==
    /\ ret.op # "init"
    /\ ret' = Return("check_winner", player,
                     check_winner(board, current_player, player))
    /\ UNCHANGED <<game_vars, play_vars, input>>

\* One turn of the loop of _seed_matchboxes on the board int_to_state gave:
\* `continue`, or the box stored under the board's string.
SeedMatchbox ==
    /\ ret.op # "init"
    /\ ret' = Return("_seed_matchboxes",
                     <<state_to_str(board),
                       IF beads(board) = 0 THEN EmptyDict ELSE seed_matchbox(board)>>,
                     IF beads(board) = 0 THEN "continue" ELSE "stored")
    /\ UNCHANGED <<game_vars, play_vars, input>>

NextCodec ==
    \/ LoadInt
    \/ StateToInt
    \/ SeedMatchbox
    \/ \E player \in Players \cup {None} : CheckWinner(player)

SpecCodec == InitCodec /\ [][NextCodec]_vars

\* ------------------------------------------------ action() on any board
\* A Player or HeuristicPlayer asked for its move on each board int_to_state
\* gives, as the tests call action() on boards they have set.
InitAction ==
    /\ \E cfg \in Agents :
          players = [i \in Seats |-> NewPlayer(IF i = 0 THEN DefaultPlayer ELSE cfg)]
    /\ board = zeros
    /\ current_player \in Players
    /\ winner = None
    /\ finished = FALSE
    /\ pc = "idle"
    /\ episodes = 0
    /\ history = [i \in Seats |-> EmptyDict]
    /\ input \in 0 .. (NumStates - 1)
    /\ ret = Return("init", <<>>, "")

\* self.players[self.current_player].action(), once on the loaded board.
Action ==
    /\ ret.op = "int_to_state"
    /\ \E a \in player_action(players[current_player], TheGame) :
          /\ players' = [players EXCEPT ![current_player] = a.player]
          /\ board' = a.board
          /\ ret' = Return("action", a.move,
                           IF a.raised = "" THEN "returned" ELSE a.raised)
    /\ UNCHANGED <<current_player, winner, finished, pc, episodes, history, input>>

NextAction ==
    \/ LoadInt
    \/ Action

SpecAction == InitAction /\ [][NextAction]_vars

\* -------------------------------------------------- the string encoding
Alphabet == {"-", "X", "O", "\n", "?"}
Strings == UNION {[1 .. n -> Alphabet] : n \in 0 .. MaxStrLen}

InitStr ==
    /\ Constructed(<<DefaultPlayer, DefaultPlayer>>)
    /\ input \in Strings

\* board, current_player = TicTacToe.str_to_state(input)
StrToState ==
    LET r == str_to_state(input)
    IN  /\ ret' = Return("str_to_state",
                         IF r.status = "ok" THEN r.board ELSE <<>>, r.status)
        /\ UNCHANGED <<game_vars, play_vars, input>>

NextStr == StrToState

SpecStr == InitStr /\ [][NextStr]_vars
\* ------------------------------------------------------------- episodes
\* Fields assigned from outside, as the tests do before play() and reset():
\* test_check_draw / test_play_game_with_draw (one empty cell, a draw),
\* test_reset (a mark, player 2, winner and finished set), and two boards
\* with three empty cells where either player can still win.  On the last
\* board player 2 is to move with two empty cells, and loses either way.
Fixtures ==
    {Game(<<<<1, 2, 1>>, <<1, 2, 2>>, <<2, 1, 0>>>>, 1, None, FALSE),
     Game(<<<<1, 2, 1>>, <<2, 1, 2>>, <<0, 1, 0>>>>, 2, None, FALSE),
     Game(<<<<1, 0, 0>>, <<0, 0, 0>>, <<0, 0, 0>>>>, 2, 1, TRUE),
     Game(<<<<1, 2, 1>>, <<2, 1, 0>>, <<2, 0, 0>>>>, 1, None, FALSE),
     Game(<<<<1, 1, 2>>, <<0, 2, 0>>, <<0, 1, 2>>>>, 1, None, FALSE)}

InitPlay ==
    /\ \E cfgs \in [1 .. 2 -> Learners] : Constructed(cfgs)
    /\ input = <<>>

\* game.board = ...; game.current_player = ...; game.winner = ...
SetFields(g) ==
    /\ pc = "idle"
    /\ pc' = pc
    /\ board' = g.board
    /\ current_player' = g.current_player
    /\ winner' = g.winner
    /\ finished' = g.finished
    /\ ret' = Return("set_fields", <<>>, "")
    /\ UNCHANGED <<players, episodes, history, input>>

\* play() is entered, on a newly made or reset game whose fields may have
\* been set: an episode is play() followed by reset(), as in main().
PlayUpTo(calls) ==
    /\ pc = "idle"
    /\ episodes < calls
    /\ Count(board, 0) <= MaxEmpty
    /\ pc' = "loop"
    /\ ret' = Return("play", <<>>, "")
    /\ UNCHANGED <<game_vars, players, episodes, history, input>>

Play == PlayUpTo(MaxEpisodes)

\* One turn of play()'s loop: the player to move chooses, the choice is
\* asserted valid and made.  An exception leaves play().
PlayTurn ==
    /\ pc = "loop"
    /\ ~finished
    /\ \E a \in player_action(players[current_player], TheGame) :
          LET raised == IF a.raised # "" THEN a.raised
                        ELSE IF is_valid_move(a.board, a.move) # "True"
                        THEN "AssertionError"
                        ELSE ""
              r == make_move(Game(a.board, current_player, winner, finished),
                             a.move)
          IN  /\ players' = [players EXCEPT ![current_player] = a.player]
              /\ IF raised # ""
                 THEN /\ pc' = "raised"
                      /\ ret' = Return("action", <<>>, raised)
                      /\ board' = a.board
                      /\ UNCHANGED <<current_player, winner, finished>>
                 ELSE /\ pc' = "loop"
                      /\ board' = r.game.board
                      /\ current_player' = r.game.current_player
                      /\ winner' = r.game.winner
                      /\ finished' = r.game.finished
                      /\ ret' = Return("action", a.move, r.result)
    /\ UNCHANGED <<episodes, history, input>>

\* history[i][s]: how many wins, draws and losses seat i was rewarded for
\* with s in its state_buffer.
Tally(reward) ==
    IF reward = One THEN <<1, 0, 0>>
    ELSE IF reward = Half THEN <<0, 1, 0>> ELSE <<0, 0, 1>>
Recorded(h, p, reward) ==
    [s \in DOMAIN h \cup Range(p.state_buffer) |->
        IF s \in Range(p.state_buffer)
        THEN LET old == Get(h, s, <<0, 0, 0>>)
                 new == Tally(reward)
             IN  <<old[1] + new[1], old[2] + new[2], old[3] + new[3]>>
        ELSE h[s]]

\* The loop is over: end_game on every player, and play() returns.  ret keeps
\* the reward each player was passed.
PlayEnd ==
    LET rewards == [i \in Seats |-> reward_of(i, winner)]
    IN  /\ pc = "loop"
        /\ finished
        /\ players' = [i \in Seats |-> player_end_game(players[i], rewards[i])]
        /\ history' = [i \in Seats |-> Recorded(history[i], players[i], rewards[i])]
        /\ pc' = "over"
        /\ episodes' = episodes + 1
        /\ ret' = Return("end_game", rewards, "")
        /\ UNCHANGED <<game_vars, input>>

NextPlay ==
    \/ \E g \in Fixtures : SetFields(g)
    \/ Play
    \/ PlayTurn
    \/ PlayEnd
    \/ Reset

SpecPlay == InitPlay /\ [][NextPlay]_vars

\* Episodes between Player and HeuristicPlayer seats.  play() is a loop that
\* runs on once entered: a turn that can be taken is taken, and the calls of
\* end_game follow the loop.
InitAgents ==
    /\ \E cfgs \in [1 .. 2 -> Agents] : Constructed(cfgs)
    /\ input = <<>>

NextAgents ==
    \/ \E g \in Fixtures : SetFields(g)
    \/ PlayUpTo(MaxGames)
    \/ PlayTurn
    \/ PlayEnd
    \/ Reset

SpecAgents ==
    InitAgents /\ [][NextAgents]_vars /\ WF_vars(PlayTurn) /\ WF_vars(PlayEnd)

\* ================================================================ claims
\* The eight lines of the grid: three rows, three columns, two diagonals.
Lines ==
    {{<<r, c>> : c \in Idx} : r \in Idx}
        \cup {{<<r, c>> : r \in Idx} : c \in Idx}
        \cup {{<<k, k>> : k \in Idx}, {<<k, N - 1 - k>> : k \in Idx}}
HasLine(b, p) == \E L \in Lines : \A m \in L : Cell(b, m) = p
Full(b) == \A m \in Idx \X Idx : Cell(b, m) # 0
Called(op) == ret.op = op

\* C1: a make_move call on a finished game, or on an occupied cell, returns
\* False and leaves board, current_player, winner and finished as they were.
C1_RejectedMoveChangesNothing ==
    [][(ret'.op = "make_move" /\ (finished \/ Cell(board, ret'.arg) # 0))
          => (ret'.val = "False" /\ UNCHANGED game_vars)]_vars

\* A move to an empty cell of a finished game was rejected.
C1_Witness ==
    /\ Called("make_move") /\ ret.val = "False"
    /\ finished /\ Cell(board, ret.arg) = 0

\* C2: an accepted make_move places the mover's mark, returns True and
\* switches the player; the game is won by the mover if the mover now has a
\* line (also on the ninth cell), else drawn if the board is full, else it
\* stays in progress.
C2_AcceptedMove ==
    [][(ret'.op = "make_move" /\ ~finished /\ Cell(board, ret'.arg) = 0)
          => LET mover == current_player
                 marked == SetCell(board, ret'.arg, mover)
             IN  /\ ret'.val = "True"
                 /\ board' = marked
                 /\ current_player' = 3 - mover
                 /\ IF HasLine(marked, mover)
                    THEN finished' /\ winner' = mover
                    ELSE IF Full(marked)
                    THEN finished' /\ winner' = None
                    ELSE ~finished' /\ winner' = None]_vars

\* The ninth mark completed a line: player 1 won on a full board.
C2_Witness ==
    /\ Called("make_move") /\ ret.val = "True"
    /\ Full(board) /\ finished /\ winner = 1 /\ current_player = 2

\* C3: the marks of player 1 outnumber those of player 2 by 0 or 1.
C3_MarkCounts == Count(board, 1) - Count(board, 2) \in {0, 1}

\* A rejected call while player 1 is one mark ahead.
C3_Witness ==
    /\ Called("make_move") /\ ret.val = "False"
    /\ Count(board, 1) - Count(board, 2) = 1

\* C4: make_move never raises, whatever the indices: it returns True or
\* False; and is_valid_move is true exactly for the empty cells inside the
\* grid (stated of the board each make_move call leaves).
C4_NeverRaises ==
    Called("make_move")
        => /\ ret.val \in {"True", "False"}
           /\ \A move \in Moves :
                 /\ is_valid_move(board, move) \in {"True", "False"}
                 /\ (is_valid_move(board, move) = "True")
                       <=> (move \in Idx \X Idx /\ Cell(board, move) = 0)

\* C5: check_winner(player=p) is true iff one of the eight lines holds only
\* p's marks; without a player it checks current_player.
C5_CheckWinner ==
    Called("check_winner")
        => ((ret.val = "True")
               <=> HasLine(board, IF ret.arg = None THEN current_player
                                  ELSE ret.arg))

\* check_winner() without a player found player 2's anti-diagonal, the only
\* line on the board.
C5_Witness ==
    /\ Called("check_winner") /\ ret.arg = None /\ ret.val = "True"
    /\ current_player = 2
    /\ \A L \in Lines :
          (\A m \in L : Cell(board, m) = 2) <=> L = {<<k, N - 1 - k>> : k \in Idx}

\* C6: the board int_to_state(n) gives holds the base-3 digits of n in
\* row-major order, most significant first, and state_to_int() of it is n.
C6_IntRoundTrip ==
    /\ ~Called("init")
          => \A k \in 1 .. (N * N) :
                Cell(board, RowMajor[k]) = (input \div (3 ^ (N * N - k))) % 3
    /\ Called("state_to_int") => ret.val = input

\* [[1,0,0],[0,2,0],[0,0,1]] <-> 100020001 in base 3.
C6_Witness ==
    /\ Called("state_to_int")
    /\ board = <<<<1, 0, 0>>, <<0, 2, 0>>, <<0, 0, 1>>>>
    /\ ret.val = 3 ^ 8 + 2 * 3 ^ 4 + 1
    /\ input = ret.val

\* C7: the state string is three rows of '-', 'X', 'O' joined by newlines,
\* and str_to_state gives back the board cell for cell.
C7_StrRoundTrip ==
    LET str == state_to_str(board)
        back == str_to_state(str)
    IN  /\ Len(str) = N * N + N - 1
        /\ \A r \in Idx : \A c \in Idx :
              str[(N + 1) * r + c + 1] = symbols[Cell(board, <<r, c>>) + 1]
        /\ \A r \in 1 .. (N - 1) : str[(N + 1) * r] = "\n"
        /\ back.status = "ok"
        /\ back.board = board

\* The board of the tests, reached by play: "X--\n-O-\n--X".
C7_Witness ==
    /\ Called("make_move") /\ ret.val = "True"
    /\ board = <<<<1, 0, 0>>, <<0, 2, 0>>, <<0, 0, 1>>>>
    /\ state_to_str(board)
          = <<"X", "-", "-", "\n", "-", "O", "-", "\n", "-", "-", "X">>

\* What the claim requires of a 3x3 string: three rows of three symbols.
WellFormed(s) ==
    /\ Len(split(s, "\n")) = N
    /\ \A i \in 1 .. N : Len(split(s, "\n")[i]) = N
    /\ \A k \in 1 .. Len(s) : s[k] = "\n" \/ HasSymbol(s[k])

\* C8: str_to_state fails on every string that holds a character outside
\* the alphabet or is not three rows of three characters.
C8_RejectsMalformed ==
    (Called("str_to_state") /\ ~WellFormed(input)) => ret.val # "ok"

\* C9: current_player is the player the count rule of str_to_state derives
\* from the board, also right after the terminal move.
C9_PlayerByCount ==
    LET back == str_to_state(state_to_str(board))
    IN  back.status = "ok" /\ current_player = back.current_player

\* Right after player 2's winning move: the counts are equal, player 1.
C9_Witness ==
    /\ Called("make_move") /\ ret.val = "True"
    /\ finished /\ winner = 2 /\ current_player = 1
\* C10: reset() leaves an empty board, player 1 to move, no winner, not
\* finished, and every player's state_buffer (and a MENACE player's
\* action_buffer) empty; the learned tables are as they were.
C10_Reset ==
    [][ret'.op = "reset"
          => /\ board' = zeros
             /\ current_player' = 1
             /\ winner' = None
             /\ finished' = FALSE
             /\ \A i \in Seats :
                   /\ players'[i].state_buffer = <<>>
                   /\ players'[i].kind = "MENACE"
                         => players'[i].action_buffer = EmptyDict
                   /\ players'[i].kind = players[i].kind
                   /\ players'[i].state_values = players[i].state_values
                   /\ players'[i].state_counts = players[i].state_counts
                   /\ players'[i].matchboxes = players[i].matchboxes]_vars

\* reset() after an episode a MENACE player learned from: its tables are
\* written, its buffers are empty again.
C10_Witness ==
    /\ Called("reset")
    /\ \E i \in 1 .. 2 :
          /\ players[i].kind = "MENACE"
          /\ DOMAIN players[i].matchboxes # {}
          /\ DOMAIN players[i].state_counts # {}
          /\ \E s \in DOMAIN players[i].state_values :
                players[i].state_values[s] = Half
          /\ players[i].state_buffer = <<>>
          /\ players[i].action_buffer = EmptyDict

\* C11: when play() ends it calls end_game once on each seated player: the
\* winner's seat is passed 1 and the other seat 0, both are passed 0.5 on a
\* draw, and each player's tables move by its own reward: every state of its
\* state_buffer is counted once more and its sum of rewards grows by the
\* reward, every other state is untouched.
C11_EndGameRewards ==
    [][ret'.op = "end_game"
          => \A i \in 1 .. 2 :
                LET reward == ret'.arg[i]
                    p == players[i]
                    q == players'[i]
                IN  /\ reward = IF winner = i THEN One
                                ELSE IF winner = 3 - i THEN Zero ELSE Half
                    /\ DOMAIN q.state_counts
                           = DOMAIN p.state_counts \cup Range(p.state_buffer)
                    /\ DOMAIN q.state_values = DOMAIN q.state_counts
                    /\ \A s \in DOMAIN q.state_counts :
                          IF s \in Range(p.state_buffer)
                          THEN /\ q.state_counts[s] = Get(p.state_counts, s, 0) + 1
                               /\ FracMul(q.state_values[s], q.state_counts[s])
                                     = FracAdd(FracMul(Get(p.state_values, s, Zero),
                                                       Get(p.state_counts, s, 0)),
                                               reward)
                          ELSE /\ q.state_counts[s] = p.state_counts[s]
                               /\ q.state_values[s] = p.state_values[s]]_vars

\* play() ended with seat 2 the winner: seat 2 was passed 1 and seat 1 was
\* passed 0, and both learned from states they had seen.
C11_Witness ==
    /\ Called("end_game") /\ winner = 2
    /\ ret.arg[2] = One /\ ret.arg[1] = Zero
    /\ \E s \in DOMAIN players[1].state_values : players[1].state_values[s] = Zero
    /\ \E s \in DOMAIN players[2].state_values : players[2].state_values[s] = One

IsMENACE(i) == i \in 1 .. 2 /\ players[i].kind = "MENACE"
weight(p, s, m) == matchbox(p, s)[m]

\* C13: MENACE.end_game changes the weight of every (state, action) pair of
\* action_buffer by +3 when the reward is 1, by -1 but not below 0 when it is
\* 0, and by +1 when it is 0.5; with infinite_exploration off every other
\* weight of every matchbox is as it was.
C13_EndGameWeights ==
    [][ret'.op = "end_game"
          => \A i \in 1 .. 2 :
                LET p == players[i]
                    q == players'[i]
                    reward == ret'.arg[i]
                    change == IF reward = One THEN 3
                              ELSE IF reward = Zero THEN 0 - 1 ELSE 1
                    recorded(s, m) ==
                        s \in DOMAIN p.action_buffer /\ p.action_buffer[s] = m
                IN  p.kind = "MENACE"
                      => /\ \A s \in DOMAIN p.action_buffer :
                               LET m == p.action_buffer[s]
                                   n == weight(p, s, m) + change
                               IN  weight(q, s, m) = IF n < 0 THEN 0 ELSE n
                         /\ ~p.infinite_exploration
                               => /\ DOMAIN q.matchboxes
                                        = DOMAIN p.matchboxes \cup DOMAIN p.action_buffer
                                  /\ \A s \in DOMAIN q.matchboxes :
                                        /\ DOMAIN matchbox(q, s) = DOMAIN matchbox(p, s)
                                        /\ \A m \in DOMAIN matchbox(p, s) :
                                              ~recorded(s, m)
                                                 => weight(q, s, m) = weight(p, s, m)]_vars

\* end_game took the last bead of a lost move and added three beads to a won
\* one, in the boxes of a MENACE player without infinite_exploration.
C13_Witness ==
    /\ Called("end_game")
    /\ \E i \in 1 .. 2 :
          /\ IsMENACE(i) /\ ~players[i].infinite_exploration
          /\ ret.arg[i] = One
          /\ \E s \in DOMAIN players[i].action_buffer :
                weight(players[i], s, players[i].action_buffer[s]) = 4
          /\ \E s \in DOMAIN players[i].matchboxes :
                \E m \in DOMAIN players[i].matchboxes[s] :
                   players[i].matchboxes[s][m] = 0

\* C14: every weight of every matchbox is a natural number, whatever the
\* episodes played.
C14_WeightsNatural ==
    \A i \in Seats :
       \A s \in DOMAIN players[i].matchboxes :
          \A m \in DOMAIN players[i].matchboxes[s] :
             players[i].matchboxes[s][m] \in Nat

\* Three episodes left a MENACE player a weight of 0 in two boxes.
C14_Witness ==
    /\ episodes = MaxEpisodes
    /\ \E i \in 1 .. 2 :
          /\ IsMENACE(i)
          /\ \E s, t \in DOMAIN players[i].matchboxes :
                /\ s # t
                /\ \E m \in DOMAIN players[i].matchboxes[s] :
                      players[i].matchboxes[s][m] = 0
                /\ \E m \in DOMAIN players[i].matchboxes[t] :
                      players[i].matchboxes[t][m] = 0

\* C15: with infinite_exploration on, every weight of every matchbox end_game
\* adjusted is at least 1, and the player never raises PlayerResignedError.
C15_InfiniteExploration ==
    /\ \A i \in 1 .. 2 :
          (IsMENACE(i) /\ players[i].infinite_exploration)
             => \A s \in DOMAIN players[i].matchboxes :
                   \A m \in DOMAIN players[i].matchboxes[s] :
                      players[i].matchboxes[s][m] >= 1
    /\ (Called("action") /\ ret.val = "PlayerResignedError")
          => ~players[current_player].infinite_exploration

\* C16: MENACE.action() on a board with two or more legal moves whose
\* matchbox has total zero raises PlayerResignedError, and the exception
\* leaves play(): the board, current_player, winner and finished are as they
\* were, the game is unfinished with no winner, end_game is called on no
\* player and no matchbox weight, count or value changes.
C16_Resigns ==
    [][(/\ ret'.op = "action"
        /\ IsMENACE(current_player)
        /\ Count(board, 0) >= 2
        /\ total(matchbox(players[current_player], state_to_str(board))) = 0)
          => /\ ret'.val = "PlayerResignedError"
             /\ pc' = "raised"
             /\ UNCHANGED <<game_vars, episodes, history>>
             /\ ~finished' /\ winner' = None
             /\ \A i \in Seats :
                   /\ players'[i].matchboxes = players[i].matchboxes
                   /\ players'[i].state_counts = players[i].state_counts
                   /\ players'[i].state_values = players[i].state_values]_vars

\* play() was left by PlayerResignedError from the player to move, whose box
\* for the board holds no bead.
C16_Witness ==
    /\ Called("action") /\ ret.val = "PlayerResignedError" /\ pc = "raised"
    /\ IsMENACE(current_player)
    /\ Count(board, 0) = 2
    /\ total(matchbox(players[current_player], state_to_str(board))) = 0

\* C17: when exactly one move is legal, MENACE.action() returns that move:
\* it raises nothing though the board has no matchbox, it appends the state
\* to state_buffer and records no pair in action_buffer, and it changes no
\* weight; so the boxes end_game writes are all of boards with two or more
\* empty cells.
C17_ForcedMove ==
    [][/\ (/\ ret'.op = "action"
            /\ IsMENACE(current_player)
            /\ Count(board, 0) = 1)
              => LET p == players[current_player]
                     q == players'[current_player]
                     state == state_to_str(board)
                 IN  /\ ~has_matchbox(p, state)
                     /\ ret'.val = "True"
                     /\ Cell(board, ret'.arg) = 0
                     /\ q.state_buffer = Append(p.state_buffer, state)
                     /\ q.action_buffer = p.action_buffer
                     /\ q.matchboxes = p.matchboxes
       /\ ret'.op = "end_game"
             => \A i \in Seats :
                   \A written \in DOMAIN players'[i].matchboxes :
                      Count(str_to_state(written).board, 0) >= 2]_vars

\* A MENACE player filled the last cell: the state it moved from is the last
\* of its state_buffer and is not in its action_buffer, which holds the
\* choice it made earlier in the episode.
C17_Witness ==
    /\ Called("action") /\ ret.val = "True" /\ Full(board)
    /\ LET p == players[3 - current_player]
       IN  /\ IsMENACE(3 - current_player)
           /\ Len(p.state_buffer) = 2
           /\ p.state_buffer[2] \notin DOMAIN p.action_buffer
           /\ p.state_buffer[1] \in DOMAIN p.action_buffer

\* C18: right after MENACE's construction, for every one of the 3^9 boards:
\* the board has a matchbox exactly if it has two or more empty cells; the
\* keys of the box are exactly the empty cells, and every key has the weight
\* floor(empty cells / 2).  A board with no or one empty cell has no box.
C18_Seeding ==
    Called("_seed_matchboxes")
       => LET p == NewPlayer(Config("MENACE", FALSE, FALSE))
              state == ret.arg[1]
              empty == {m \in Idx \X Idx : Cell(board, m) = 0}
              n == Cardinality(empty)
          IN  /\ has_matchbox(p, state) <=> n >= 2
              /\ ret.val = "stored" <=> n >= 2
              /\ n >= 2
                    => /\ matchbox(p, state) = ret.arg[2]
                       /\ DOMAIN matchbox(p, state) = empty
                       /\ \A m \in empty :
                             LET w == matchbox(p, state)[m]
                             IN  2 * w <= n /\ n < 2 * w + 2

\* The loop stored a box of five keys with two beads each.
C18_Witness ==
    /\ Called("_seed_matchboxes") /\ ret.val = "stored"
    /\ Count(board, 0) = 5
    /\ Cardinality(DOMAIN ret.arg[2]) = 5
    /\ \A m \in DOMAIN ret.arg[2] : ret.arg[2][m] = 2

\* C19: for every player and every state s, state_counts[s] is the number of
\* episodes that ended with s in the player's state_buffer, and
\* state_values[s] is the arithmetic mean of the rewards of those episodes:
\* a number from 0 to 1, and 1 if all of them were wins.
C19_CountsAndMeans ==
    \A i \in Seats :
       LET p == players[i]
           h == history[i]
       IN  /\ DOMAIN p.state_counts = DOMAIN h
           /\ DOMAIN p.state_values = DOMAIN h
           /\ \A s \in DOMAIN h :
                 LET wins == h[s][1]
                     draws == h[s][2]
                     losses == h[s][3]
                     n == wins + draws + losses
                     value == p.state_values[s]
                 IN  /\ p.state_counts[s] = n
                     /\ value = Frac(2 * wins + draws, 2 * n)
                     /\ 0 <= value[1] /\ value[1] <= value[2]
                     /\ (draws = 0 /\ losses = 0) => value = One

\* A state seen in three episodes, one drawn and two lost: its value is 1/6.
C19_Witness ==
    \E i \in 1 .. 2 :
       \E s \in DOMAIN players[i].state_counts :
          /\ players[i].state_counts[s] = 3
          /\ history[i][s] = <<0, 1, 2>>
          /\ players[i].state_values[s] = <<1, 6>>

\* C20: HeuristicPlayer.action() leaves board, current_player, winner and
\* finished as they were, on every board and whichever branch of its ladder
\* returns: the marks it places to look ahead are all taken back.
C20_ActionLeavesGame ==
    [][ret'.op = "action" => UNCHANGED game_vars]_vars

\* A HeuristicPlayer without epsilon returned a corner on a board whose only
\* mark is in the centre: it tried all eight cells for both players first.
C20_Witness ==
    /\ Called("action") /\ ret.val = "returned"
    /\ players[current_player].kind = "HeuristicPlayer"
    /\ ~players[current_player].epsilon
    /\ Count(board, 0) = 8 /\ Cell(board, center_move) # 0
    /\ ret.arg \in Range(corner_moves)

\* The empty cells of the board, and those that complete a line for player q.
Empty == {m \in Idx \X Idx : Cell(board, m) = 0}
Completing(q) == {m \in Empty : HasLine(SetCell(board, m, q), q)}
InProgress == Empty # {} /\ ~HasLine(board, 1) /\ ~HasLine(board, 2)

\* C21: with epsilon unset, the move HeuristicPlayer.action() returns on an
\* in-progress board is in the first non-empty one of: the empty cells that
\* complete a line for the mover, those that complete a line for the
\* opponent, the centre if empty, the empty corners, all empty cells.
C21_Ladder ==
    (/\ Called("action")
     /\ players[current_player].kind = "HeuristicPlayer"
     /\ ~players[current_player].epsilon
     /\ InProgress)
       => LET wins == Completing(current_player)
              blocks == Completing(3 - current_player)
              centre == Empty \cap {<<1, 1>>}
              corners == Empty \cap {<<0, 0>>, <<0, 2>>, <<2, 0>>, <<2, 2>>}
          IN  /\ ret.val = "returned"
              /\ ret.arg \in IF wins # {} THEN wins
                              ELSE IF blocks # {} THEN blocks
                              ELSE IF centre # {} THEN centre
                              ELSE IF corners # {} THEN corners
                              ELSE Empty

\* With the centre and a corner empty and no win at hand, the player took
\* the cell that stops the opponent's line.
C21_Witness ==
    /\ Called("action") /\ ret.val = "returned"
    /\ players[current_player].kind = "HeuristicPlayer"
    /\ ~players[current_player].epsilon
    /\ InProgress
    /\ Completing(current_player) = {}
    /\ ret.arg \in Completing(3 - current_player)
    /\ <<1, 1>> \in Empty /\ <<0, 0>> \in Empty
    /\ ret.arg \notin {<<1, 1>>, <<0, 0>>, <<0, 2>>, <<2, 0>>, <<2, 2>>}

\* The marks on the board a state string stands for.
Marks(state, q) == Count(str_to_state(state).board, q)

C23_ReturnsEmptyCell ==
    (Called("action") /\ Empty # {})
       => /\ ret.val = "returned"
          /\ ret.arg \in Empty
          /\ is_valid_move(board, ret.arg) = "True"
          /\ make_move(TheGame, ret.arg).result = "True"

\* A HeuristicPlayer with epsilon set returned a side cell of a board whose
\* centre is empty and where nobody can complete a line: an explored move.
C23_Witness ==
    /\ Called("action") /\ ret.val = "returned"
    /\ players[current_player].kind = "HeuristicPlayer"
    /\ players[current_player].epsilon
    /\ InProgress
    /\ Completing(1) = {} /\ Completing(2) = {}
    /\ <<1, 1>> \in Empty
    /\ ret.arg = <<0, 1>>

RECURSIVE SumOver(_, _)
\* The sum of the weights box holds for the moves of a sequence.
SumOver(box, moves) ==
    IF moves = <<>> THEN 0 ELSE box[Head(moves)] + SumOver(box, Tail(moves))

\* C24: when MENACE.action() chooses from a matchbox (two or more legal
\* moves, total at least 1), the move is an empty cell whose weight in the
\* box of the state is at least 1, it is recorded in action_buffer, and the
\* weights of the legal moves add up to the total of the box.
C24_SelectsWeighted ==
    [][(/\ ret'.op = "action"
        /\ IsMENACE(current_player)
        /\ Count(board, 0) >= 2
        /\ total(matchbox(players[current_player], state_to_str(board))) >= 1)
          => LET p == players[current_player]
                 state == state_to_str(board)
                 box == matchbox(p, state)
             IN  /\ ret'.val = "True"
                 /\ Cell(board, ret'.arg) = 0
                 /\ box[ret'.arg] >= 1
                 /\ players'[current_player].action_buffer[state] = ret'.arg
                 /\ SumOver(box, get_valid_moves(board)) = total(box)]_vars

\* A MENACE player moved on a board where an earlier loss had left one legal
\* move without beads: it chose another.
C24_Witness ==
    /\ Called("action") /\ ret.val = "True"
    /\ LET i == 3 - current_player
           p == players[i]
           state == p.state_buffer[Len(p.state_buffer)]
       IN  /\ IsMENACE(i)
           /\ p.state_buffer # <<>>
           /\ state \in DOMAIN p.matchboxes
           /\ state \in DOMAIN p.action_buffer
           /\ p.action_buffer[state] = ret.arg
           /\ p.matchboxes[state][ret.arg] >= 1
           /\ \E m \in DOMAIN p.matchboxes[state] : p.matchboxes[state][m] = 0

\* C25: in every state reached from reset() by calls of make_move: a winner
\* means the game is finished, the winner is the player who is not the
\* current one, the winner holds a full line and the other player holds none;
\* a finished game without winner has a full board and no line; an unfinished
\* game has no line and at least one empty cell.
C25_Terminal ==
    /\ winner \in {None} \cup Players
    /\ winner # None =>
          /\ finished
          /\ winner = 3 - current_player
          /\ HasLine(board, winner)
          /\ ~HasLine(board, 3 - winner)
    /\ (finished /\ winner = None) =>
          /\ Full(board)
          /\ ~HasLine(board, 1) /\ ~HasLine(board, 2)
    /\ ~finished =>
          /\ winner = None
          /\ ~HasLine(board, 1) /\ ~HasLine(board, 2)
          /\ Empty # {}

\* The ninth mark was accepted and left a full board without a line: a draw.
C25_Witness ==
    /\ Called("make_move") /\ ret.val = "True"
    /\ finished /\ winner = None
    /\ Full(board)
    /\ current_player = 2

\* The empty cells of the board a state string stands for.
EmptyCellsOf(state) ==
    UNION {{m \in Idx \X Idx : Cell(b, m) = 0} :
              b \in {str_to_state(state).board}}

\* C26: every matchbox lookup of MENACE succeeds: action() never raises
\* KeyError, the state a MENACE player is about to consult with two or more
\* legal moves has a box, and so does every state of action_buffer, which
\* end_game looks up; the recorded action is a key of its box, and the keys of
\* every box end_game has written are exactly the empty cells of its state.
C26_MatchboxKeys ==
    /\ ret.val # "KeyError"
    /\ (pc = "loop" /\ ~finished /\ IsMENACE(current_player)
            /\ Count(board, 0) >= 2) =>
          LET p == players[current_player]
              state == state_to_str(board)
          IN  /\ has_matchbox(p, state)
              /\ DOMAIN matchbox(p, state) = Empty
    /\ \A i \in Seats : IsMENACE(i) =>
          LET p == players[i]
          IN  /\ \A state \in DOMAIN p.action_buffer :
                    \E cells \in {EmptyCellsOf(state)} :
                        /\ has_matchbox(p, state)
                        /\ DOMAIN matchbox(p, state) = cells
                        /\ p.action_buffer[state] \in cells
              /\ \A state \in DOMAIN p.matchboxes :
                    DOMAIN p.matchboxes[state] = EmptyCellsOf(state)

\* end_game has looked up the box of a recorded state of a MENACE player and
\* changed the weight of the recorded action; the keys of the box are still
\* the empty cells of the state.
C26_Witness ==
    /\ Called("end_game")
    /\ \E i \in Seats :
          /\ IsMENACE(i)
          /\ \E state \in DOMAIN players[i].matchboxes :
                LET box == players[i].matchboxes[state]
                    board_of == str_to_state(state).board
                IN  /\ DOMAIN box = EmptyCellsOf(state)
                    /\ Cardinality(DOMAIN box) >= 2
                    /\ \E m \in DOMAIN box : box[m] # beads(board_of)
====
